---------------------------- MODULE Spec2Model ----------------------------
(***************************************************************************)
(* Model of the ISM control assessment backend:                            *)
(*   - ISMControlAssessor  (src/be/agents/ism_control_assessment_tool.py)  *)
(*   - process_strings     (src/be/main.py, POST /conduct-assessment)      *)
(*   - get_ism_description (src/be/ism_description_svc.py)                 *)
(*   - update_ssp_excel    (src/be/ssp_excel_updater.py)                   *)
(*                                                                         *)
(* Python values are modelled as follows.  A Python exception is a record  *)
(* [type, msg].  The outcome of a call is a record [kind, value, exc] with *)
(* kind "return" or "raise".  Control identifiers and identifier cells are *)
(* sequences of one-character strings, so that str() and strip() are       *)
(* computed; statuses, comments and messages are TLA+ strings.             *)
(***************************************************************************)
EXTENDS Integers, Sequences, FiniteSets, TLC

VARIABLES
    \* ---- ISMControlAssessor object driven through its public methods ----
    assessor,       \* the object's fields (agent, model_client, policies, ...)
    initOk,         \* history: some initialize() of this object completed
    call,           \* the last method call: what it saw, answered and did
    \* ---- one request to POST /conduct-assessment ----
    pc,             \* position of process_strings
    items,          \* string_list.items
    idx,            \* 1-based position of the loop variable ism in items
    results,        \* the local list results
    desc,           \* the local desc of the current iteration
    session,        \* the assessor local to the running assess_ism_control
    ret,            \* outcome of the running assess_ism_control
    returned,       \* history: outcome of assess_ism_control, per control
    response,       \* what the endpoint answered (or the exception it let out)
    effects,        \* history: what the run did to the outside (see NoEffects)
    \* ---- the files update_ssp_excel works on ----
    json_file,      \* content of json_path (./data/results.json)
    excel_file,     \* content of excel_path (the template workbook)
    output_file,    \* content of output_path
    merged,         \* outcome of the last update_ssp_excel call
    \* ---- several requests to POST /conduct-assessment and ./output ----
    clock,          \* the wall clock, in seconds since midnight
    requests,       \* per request: position, and the output_file it returned
    output_dir      \* ./output: path |-> the file there and the request that saved it

assessorVars == <<assessor, initOk, call>>
batchVars    == <<pc, items, idx, results, desc, session, ret, returned, response,
                  effects>>
fileVars     == <<json_file, excel_file, output_file, merged>>
reportVars   == <<clock, requests, output_dir>>
vars         == <<assessor, initOk, call,
                  pc, items, idx, results, desc, session, ret, returned, response,
                  effects,
                  json_file, excel_file, output_file, merged,
                  clock, requests, output_dir>>

(***************************************************************************)
(* Python values                                                           *)
(***************************************************************************)
NoExc == [type |-> "", msg |-> ""]

Exc(type, msg) == [type |-> type, msg |-> msg]

Return(v) == [kind |-> "return", value |-> v, exc |-> NoExc]

Raise(type, msg) == [kind |-> "raise", value |-> <<>>, exc |-> Exc(type, msg)]

NoCall == [kind |-> "none", value |-> <<>>, exc |-> NoExc]

\* ", ".join(parts)
RECURSIVE Join(_)
Join(parts) ==
    IF parts = <<>> THEN ""
    ELSE IF Len(parts) = 1 THEN parts[1]
    ELSE parts[1] \o ", " \o Join(Tail(parts))

(***************************************************************************)
(* ISMControlAssessor                                                      *)
(***************************************************************************)
\* self.implementation_statuses
implementation_statuses ==
    {"Not Assessed", "Effective", "Alternate control", "not implemented",
     "implemented", "ineffective", "no usability", "not applicable"}

\* AgentResponseJSON.is_valid_status (defined by the class, called nowhere)
is_valid_status(status) ==
    status \in {"Not Assessed", "Effective", "Alternate control",
                "not implemented", "implemented", "partial", "ineffective",
                "no usability", "not applicable"}

\* The three required fields of AgentResponseJSON.
ResponseFields == {"status", "relevant_policies", "explanation"}

\* The labels the prompt of assess_control lists under "Allowed
\* Implementation Statuses" (and repeats in its JSON format and in the
\* agent's system message).
PromptStatuses ==
    {"Not Assessed", "Effective", "Alternate Control", "Not Implemented",
     "Partially Implemented", "Ineffective", "Technically Unfeasible",
     "No Visibility", "Not Applicable"}

\* The placeholder assess_control starts from.
NoResponse ==
    [status |-> "Not Assessed", relevant_policies |-> <<>>,
     explanation |-> "No response"]

\* An object before __init__ ran to its end.
NoAssessor ==
    [constructed |-> FALSE, agent |-> FALSE, model_client |-> "None",
     policies |-> "", deployment |-> ""]

\* load_policies: the whole file as text, or RuntimeError.
\* file = [readable, text]
load_policies(self, file) ==
    IF file.readable
    THEN Return([self EXCEPT !.policies = file.text])
    ELSE Raise("RuntimeError", "Failed to load policy file: " \o "cannot read")

\* __init__(policy_file_path, azure_deployment): env = [api_key, file]
ISMControlAssessor(deployment, env) ==
    LET self == [constructed |-> TRUE, agent |-> FALSE, model_client |-> "None",
                 policies |-> "", deployment |-> deployment]
    IN  IF ~env.api_key
        THEN Raise("ValueError",
                   "API key must be provided either through constructor or OPENAI_API_KEY environment variable")
        ELSE load_policies(self, env.file)

cleanup_Skip(self, closeRaises) == [self |-> self, closes |-> 0]

\* cleanup: close the client if there is one; a failing close is swallowed.
\* Answers the object and the number of close attempts.
cleanup(self, closeRaises) ==
    IF self.model_client # "None"
    THEN [self |-> [self EXCEPT !.model_client =
                        IF closeRaises THEN self.model_client ELSE "closed"],
          closes |-> 1]
    ELSE [self |-> self, closes |-> 0]

initialize_NoCleanup(self, env) ==
    LET why == IF self.deployment = "" THEN "Azure deployment name is required"
               ELSE IF ~env.client_ok THEN "client"
               ELSE IF ~env.agent_ok THEN "agent"
               ELSE ""
        withClient == IF self.deployment # "" /\ env.client_ok
                      THEN [self EXCEPT !.model_client = "open"]
                      ELSE self
    IN  IF why = ""
        THEN [self |-> [withClient EXCEPT !.agent = TRUE],
              out |-> Return(<<>>), closes |-> 0]
        ELSE [self |-> withClient,
              out |-> Raise("RuntimeError",
                            "Failed to initialize Azure OpenAI connection: " \o why),
              closes |-> 0]

\* initialize: env = [client_ok, agent_ok, closeRaises].
\* Answers the object, the outcome and the number of close attempts.
initialize(self, env) ==
    LET why == IF self.deployment = "" THEN "Azure deployment name is required"
               ELSE IF ~env.client_ok THEN "client"
               ELSE IF ~env.agent_ok THEN "agent"
               ELSE ""
        withClient == IF self.deployment # "" /\ env.client_ok
                      THEN [self EXCEPT !.model_client = "open"]
                      ELSE self
    IN  IF why = ""
        THEN [self |-> [withClient EXCEPT !.agent = TRUE],
              out |-> Return(<<>>), closes |-> 0]
        ELSE LET c == cleanup(withClient, env.closeRaises)
             IN  [self |-> c.self,
                  out |-> Raise("RuntimeError",
                                "Failed to initialize Azure OpenAI connection: " \o why),
                  closes |-> c.closes]

\* What self.agent.on_messages(...) can answer, by resp.kind:
\*   "raise"           the call raised an Exception
\*   "cancelled"       the awaiting task was cancelled while the call was in
\*                     flight: asyncio.CancelledError, a BaseException
\*   "no_chat_message" an object without a chat_message attribute
\*   "none_content"    a chat message whose content is None
\*   "text_content"    a chat message whose content is a str
\*   "fields_content"  a chat message whose content is a mapping holding the
\*                     fields named in resp.present
Answer(kind, present, status, relevant_policies, explanation) ==
    [kind |-> kind, present |-> present, status |-> status,
     relevant_policies |-> relevant_policies, explanation |-> explanation]

NoAnswer == Answer("none", {}, "", <<>>, "")

\* AgentResponseJSON(**content): every field is required.
ValidPayload(resp) ==
    /\ resp.kind = "fields_content"
    /\ ResponseFields \subseteq resp.present

ParseResponse_Reraise(resp) ==
    IF resp.kind = "cancelled"
    THEN Raise("CancelledError", "")
    ELSE IF resp.kind = "raise"
    THEN Return(<<"Not Assessed", <<>>, "">>)
    ELSE IF resp.kind = "no_chat_message"
    THEN Return(<<NoResponse.status, NoResponse.relevant_policies,
                  NoResponse.explanation>>)
    ELSE IF ValidPayload(resp)
    THEN Return(<<resp.status, resp.relevant_policies, resp.explanation>>)
    ELSE Raise("ValueError", "Invalid LLM response format")

\* The try block of assess_control, given what on_messages answered.
ParseResponse(resp) ==
    IF resp.kind = "cancelled"
    THEN Raise("CancelledError", "")                     \* no clause catches it
    ELSE IF resp.kind = "raise"
    THEN Return(<<"Not Assessed", <<>>, "">>)            \* except Exception
    ELSE IF resp.kind = "no_chat_message"
    THEN Return(<<NoResponse.status, NoResponse.relevant_policies,
                  NoResponse.explanation>>)              \* the placeholder
    ELSE IF ValidPayload(resp)
    THEN Return(<<resp.status, resp.relevant_policies, resp.explanation>>)
    ELSE Return(<<"Not Assessed", <<>>, "">>)            \* dict() or validation raised

assess_control_EmptyFirst(self, resp) ==
    IF self.policies = ""
    THEN [out |-> Return(<<"Not Assessed", <<>>,
                           "No policies available for assessment.">>),
          remote |-> 0]
    ELSE IF ~self.agent \/ self.model_client = "None"
    THEN [out |-> Raise("RuntimeError",
                        "Assessor not initialized. Call initialize() first"),
          remote |-> 0]
    ELSE [out |-> ParseResponse(resp), remote |-> 1]

assess_control_NoShortCircuit(self, resp) ==
    IF ~self.agent \/ self.model_client = "None"
    THEN [out |-> Raise("RuntimeError",
                        "Assessor not initialized. Call initialize() first"),
          remote |-> 0]
    ELSE [out |-> ParseResponse(resp), remote |-> 1]

assess_control_Retry(self, resp) ==
    IF ~self.agent \/ self.model_client = "None"
    THEN [out |-> Raise("RuntimeError",
                        "Assessor not initialized. Call initialize() first"),
          remote |-> 0]
    ELSE IF self.policies = ""
    THEN [out |-> Return(<<"Not Assessed", <<>>,
                           "No policies available for assessment.">>),
          remote |-> 0]
    ELSE [out |-> ParseResponse(resp),
          remote |-> IF ValidPayload(resp) THEN 1 ELSE 2]

\* assess_control(ism_title, ism_description), given the remote answer.
\* Answers the outcome and the number of on_messages calls made.
assess_control(self, resp) ==
    IF ~self.agent \/ self.model_client = "None"
    THEN [out |-> Raise("RuntimeError",
                        "Assessor not initialized. Call initialize() first"),
          remote |-> 0]
    ELSE IF self.policies = ""
    THEN [out |-> Return(<<"Not Assessed", <<>>,
                           "No policies available for assessment.">>),
          remote |-> 0]
    ELSE [out |-> ParseResponse(resp), remote |-> 1]

(***************************************************************************)
(* get_ism_description (src/be/ism_description_svc.py)                     *)
(***************************************************************************)
\* A description as Python sees it: a str, or None.
Descr(text) == [none |-> FALSE, text |-> text]

NoneDescr == [none |-> TRUE, text |-> ""]

\* One element of data.json: {key: {"Description": desc}}; `empty` is {} and
\* has_desc tells whether the inner mapping holds "Description".
CatalogEntry(empty, key, has_desc, text) ==
    [empty |-> empty, key |-> key, has_desc |-> has_desc, text |-> text]

\* The for loop of get_ism_description over the remaining elements.
RECURSIVE LookupFrom(_, _)
LookupFrom(data, ism_key) ==
    IF data = <<>> THEN Return(<<NoneDescr>>)
    ELSE LET ism == Head(data)
         IN  IF ism.empty
             THEN Raise("IndexError", "list index out of range")
             ELSE IF ism.key = ism_key
             THEN Return(<<IF ism.has_desc THEN Descr(ism.text) ELSE NoneDescr>>)
             ELSE LookupFrom(Tail(data), ism_key)

\* get_ism_description(ism_key); file = [readable, data]
get_ism_description(ism_key, file) ==
    IF ~file.readable
    THEN Raise("OSError", "data.json cannot be read")
    ELSE LookupFrom(file.data, ism_key)

(***************************************************************************)
(* update_ssp_excel (src/be/ssp_excel_updater.py)                          *)
(***************************************************************************)
\* row[1], row[11], row[12] and iter_rows(min_row=2)
ID_COL == 1

STATUS_COL == 11

COMMENT_COL == 12

MIN_ROW == 2

\* A cell value: None, an int, a str kept as characters (identifier column),
\* or a str kept whole (status and comment columns, headers).
NoneCell == [t |-> "none", chars |-> <<>>, n |-> 0, s |-> ""]

CharsCell(chars) == [t |-> "chars", chars |-> chars, n |-> 0, s |-> ""]

IntCell(n) == [t |-> "int", chars |-> <<>>, n |-> n, s |-> ""]

TextCell(s) == [t |-> "text", chars |-> <<>>, n |-> 0, s |-> s]

Digit(d) == CASE d = 0 -> "0" [] d = 1 -> "1" [] d = 2 -> "2" [] d = 3 -> "3"
              [] d = 4 -> "4" [] d = 5 -> "5" [] d = 6 -> "6" [] d = 7 -> "7"
              [] d = 8 -> "8" [] d = 9 -> "9"

\* str(n) for n >= 0
RECURSIVE IntToStr(_)
IntToStr(n) ==
    IF n < 10 THEN <<Digit(n)>> ELSE Append(IntToStr(n \div 10), Digit(n % 10))

\* str(cell.value); a str kept whole counts as one character that is no blank
Str(cell) ==
    CASE cell.t = "none"  -> <<"N", "o", "n", "e">>
      [] cell.t = "int"   -> IntToStr(cell.n)
      [] cell.t = "chars" -> cell.chars
      [] cell.t = "text"  -> <<cell.s>>

Whitespace == {" ", "\t", "\n"}

RECURSIVE LStrip(_)
LStrip(chars) ==
    IF chars # <<>> /\ Head(chars) \in Whitespace THEN LStrip(Tail(chars))
    ELSE chars

RECURSIVE RStrip(_)
RStrip(chars) ==
    IF chars # <<>> /\ chars[Len(chars)] \in Whitespace
    THEN RStrip(SubSeq(chars, 1, Len(chars) - 1))
    ELSE chars

\* s.strip()
Strip(chars) == RStrip(LStrip(chars))

\* A file: absent or unreadable (readable = FALSE), a JSON list of result
\* objects (entries), or a workbook (has_sheet: it holds the worksheet
\* 'Essential Eight'; rows: that worksheet's rows, each max_column cells wide).
NoFile == [readable |-> FALSE, entries |-> <<>>, has_sheet |-> FALSE, rows |-> <<>>]

JsonFile(entries) ==
    [readable |-> TRUE, entries |-> entries, has_sheet |-> FALSE, rows |-> <<>>]

Workbook(has_sheet, rows) ==
    [readable |-> TRUE, entries |-> <<>>, has_sheet |-> has_sheet, rows |-> rows]

\* One result object: the keys it holds and their values.
EntryKeys == {"ism-control", "result", "comment"}

Entry(keys, ism_control, result, comment) ==
    [keys |-> keys, ism_control |-> ism_control, result |-> result,
     comment |-> comment]

\* {item['ism-control']: item for item in results}: the last item of a key wins
result_map_FirstWins(entries) ==
    [k \in {entries[i].ism_control : i \in 1..Len(entries)} |->
        entries[CHOOSE i \in 1..Len(entries) :
                    /\ entries[i].ism_control = k
                    /\ \A j \in 1..(i - 1) : entries[j].ism_control # k]]

result_map(entries) ==
    [k \in {entries[i].ism_control : i \in 1..Len(entries)} |->
        entries[CHOOSE i \in 1..Len(entries) :
                    /\ entries[i].ism_control = k
                    /\ \A j \in (i + 1)..Len(entries) : entries[j].ism_control # k]]

\* The body of the for loop on one row: the row as left in memory, and the
\* exception that ended the body, if any.
UpdateRow(row, map) ==
    IF Len(row) < ID_COL + 1
    THEN [row |-> row, exc |-> Exc("IndexError", "tuple index out of range")]
    ELSE LET ism_control == Strip(Str(row[ID_COL + 1]))
         IN  IF ism_control \notin DOMAIN map
             THEN [row |-> row, exc |-> NoExc]
             ELSE IF Len(row) < STATUS_COL + 1
             THEN [row |-> row, exc |-> Exc("IndexError", "tuple index out of range")]
             ELSE IF "result" \notin map[ism_control].keys
             THEN [row |-> row, exc |-> Exc("KeyError", "result")]
             ELSE LET withL == [row EXCEPT ![STATUS_COL + 1] =
                                    TextCell(map[ism_control].result)]
                  IN  IF Len(row) < COMMENT_COL + 1
                      THEN [row |-> withL,
                            exc |-> Exc("IndexError", "tuple index out of range")]
                      ELSE IF "comment" \notin map[ism_control].keys
                      THEN [row |-> withL, exc |-> Exc("KeyError", "comment")]
                      ELSE [row |-> [withL EXCEPT ![COMMENT_COL + 1] =
                                        TextCell(map[ism_control].comment)],
                            exc |-> NoExc]

\* for row in ws.iter_rows(min_row=...): rows from r on, until a body raises
RECURSIVE UpdateRows(_, _, _)
UpdateRows(rows, r, map) ==
    IF r > Len(rows) THEN [rows |-> rows, exc |-> NoExc]
    ELSE LET u == UpdateRow(rows[r], map)
         IN  IF u.exc # NoExc
             THEN [rows |-> [rows EXCEPT ![r] = u.row], exc |-> u.exc]
             ELSE UpdateRows([rows EXCEPT ![r] = u.row], r + 1, map)

iter_rows_FromHeader(rows, map) == UpdateRows(rows, 1, map)

iter_rows(rows, map) == UpdateRows(rows, MIN_ROW, map)

select_sheet_Active(excel) == Return(<<excel.rows>>)

\* ws = wb['Essential Eight']; a KeyError becomes the ValueError
select_sheet(excel) ==
    IF excel.has_sheet
    THEN Return(<<excel.rows>>)
    ELSE Raise("ValueError",
               "Worksheet 'Essential Eight' not found in the Excel file")

wb_save_InPlace(excel, rows, output) ==
    [output |-> output, template |-> [excel EXCEPT !.rows = rows]]

\* wb.save(output_path): the workbook loaded from excel_path, with the rows
\* as updated in memory, is written to output_path; the file at excel_path
\* is not written.
wb_save(excel, rows, output) ==
    [output |-> [excel EXCEPT !.rows = rows], template |-> excel]

update_ssp_excel_SaveThenRaise(json, excel, output) ==
    LET fails(o) == [out |-> o, output |-> output, template |-> excel]
    IN  IF ~json.readable
        THEN fails(Raise("OSError", "results file cannot be read"))
        ELSE IF \E i \in 1..Len(json.entries) :
                    "ism-control" \notin json.entries[i].keys
        THEN fails(Raise("KeyError", "ism-control"))
        ELSE IF ~excel.readable
        THEN fails(Raise("OSError", "workbook cannot be read"))
        ELSE IF select_sheet(excel).kind = "raise"
        THEN fails(select_sheet(excel))
        ELSE LET u == iter_rows(select_sheet(excel).value[1],
                                result_map(json.entries))
                 w == wb_save(excel, u.rows, output)
             IN  [out |-> IF u.exc # NoExc
                          THEN [kind |-> "raise", value |-> <<>>, exc |-> u.exc]
                          ELSE Return(<<>>),
                  output |-> w.output, template |-> w.template]

\* update_ssp_excel(json_path, excel_path, output_path), on the contents of
\* the three files.  Answers the outcome and what the files at output_path
\* and excel_path hold afterwards.
update_ssp_excel(json, excel, output) ==
    LET fails(o) == [out |-> o, output |-> output, template |-> excel]
    IN  IF ~json.readable
        THEN fails(Raise("OSError", "results file cannot be read"))
        ELSE IF \E i \in 1..Len(json.entries) :
                    "ism-control" \notin json.entries[i].keys
        THEN fails(Raise("KeyError", "ism-control"))
        ELSE IF ~excel.readable
        THEN fails(Raise("OSError", "workbook cannot be read"))
        ELSE IF select_sheet(excel).kind = "raise"
        THEN fails(select_sheet(excel))
        ELSE LET u == iter_rows(select_sheet(excel).value[1],
                                result_map(json.entries))
                 w == wb_save(excel, u.rows, output)
             IN  IF u.exc # NoExc
                 THEN fails([kind |-> "raise", value |-> <<>>, exc |-> u.exc])
                 ELSE [out |-> Return(<<>>),
                       output |-> w.output, template |-> w.template]

(***************************************************************************)
(* process_strings (src/be/main.py)                                        *)
(***************************************************************************)
\* Model = "gpt-5-mini" in assess_ism_control
Model == "gpt-5-mini"

\* What assess_ism_control returns from its except clause.
AssessFallback == Return(<<"Not Assessed", <<>>, "">>)

\* except Exception catches every exception but the BaseException ones;
\* asyncio.CancelledError is one of those.
IsException(exc) == exc.type # "CancelledError"

\* The except clause of assess_ism_control, applied to what its try block
\* ended with: an Exception becomes the fallback, anything else passes.
AssessExcept(outcome) ==
    IF outcome.kind = "raise" /\ IsException(outcome.exc)
    THEN AssessFallback
    ELSE outcome

AssessFinally_OnlyOnReturn(self, closeRaises, pending) ==
    IF pending.kind = "raise"
    THEN [self |-> self, closes |-> 0]
    ELSE cleanup(self, closeRaises)

\* finally: await assessor.cleanup(), whatever assess_control ended with
\* (`pending`: its return value or the exception on its way out).
AssessFinally(self, closeRaises, pending) == cleanup(self, closeRaises)

\* status, policies = <value>: a two-name target takes exactly two values.
Unpack2(value) ==
    IF Len(value) = 2 THEN Return(value)
    ELSE IF Len(value) > 2
    THEN Raise("ValueError", "too many values to unpack (expected 2)")
    ELSE Raise("ValueError", "not enough values to unpack")

\* The try statement of the loop body, given the outcome of
\* assess_ism_control: the result object it builds.
AssessmentEntry(ism, outcome) ==
    LET u == IF outcome.kind = "return" THEN Unpack2(outcome.value) ELSE outcome
    IN  IF u.kind = "return"
        THEN Entry(EntryKeys, ism, u.value[1], Join(u.value[2]))
        ELSE Entry(EntryKeys, ism, "Not Assessed", "Error: " \o u.exc.msg)

\* results.append(result), on either branch of the try statement
AppendResult(list, ism, outcome) == Append(list, AssessmentEntry(ism, outcome))

\* What the endpoint answers: the returned mapping, or the exception that
\* left process_strings, with the step (`at`) that raised it.
Responded(assessments) ==
    [kind |-> "return", at |-> "", exc |-> NoExc, assessments |-> assessments]

Failed(at, exc) ==
    [kind |-> "raise", at |-> at, exc |-> exc, assessments |-> <<>>]

NoResponseYet == [kind |-> "none", at |-> "", exc |-> NoExc, assessments |-> <<>>]

\* What one run of process_strings did to the outside.  For the running
\* assess_ism_control call: clients created, close attempts, whether a close
\* raised, the structural step that failed ("api_key", "load", "initialize"),
\* on_messages calls, and whether any policy of the corpus bears on the
\* control.  For the whole run: sessions created and not yet torn down
\* (live), and reads of the policy file (loads).
NoEffects ==
    [clients |-> 0, closes |-> 0, closeRaised |-> FALSE, failure |-> "",
     remote |-> 0, relevance |-> "", live |-> 0, loads |-> 0]

\* The next assess_ism_control call starts with nothing done.
NextControl(e) == [NoEffects EXCEPT !.live = e.live, !.loads = e.loads]

\* datetime.datetime.now(), from the wall clock in seconds since midnight;
\* the date is the same all day.
Now(seconds) ==
    [day |-> 3, month |-> 11, year |-> 2026,
     hour |-> seconds \div 3600, minute |-> (seconds \div 60) % 60,
     second |-> seconds % 60]

\* A number as strftime prints %d, %m, %y, %H and %M: two digits.
TwoDigits(n) == Digit((n \div 10) % 10) \o Digit(n % 10)

\* now.strftime('%d-%m-%y-%H-%M'): the seconds are not part of it
strftime(now) ==
    TwoDigits(now.day) \o "-" \o TwoDigits(now.month) \o "-"
    \o TwoDigits(now.year) \o "-" \o TwoDigits(now.hour) \o "-"
    \o TwoDigits(now.minute)

\* get_output_filename(), called when the clock shows `now`
get_output_filename(now) ==
    "System-Security-Plan-" \o strftime(now) \o ".xlsx"

\* get_output_path(filename): os.path.join("./output", filename)
get_output_path(filename) == "./output/" \o filename

\* A request: its position in process_strings and, once it has returned,
\* the output_file of its response.
Request(at, filename) == [pc |-> at, output_file |-> filename]

\* A file of ./output: its content and the request whose save wrote it.
Report(file, request) == [file |-> file, request |-> request]

\* What ./output holds at a path: the file last saved there, or nothing.
FileAt(dir, path) == IF path \in DOMAIN dir THEN dir[path].file ELSE NoFile

(***************************************************************************)
(* Inputs                                                                  *)
(***************************************************************************)
\* Status labels a remote answer may carry: one of the assessor's labels, one
\* the prompt offers and one the validator alone accepts.
AnswerStatuses == {"Effective", "Partially Implemented", "partial"}

AnswerPolicies == {<<>>, <<"P1">>, <<"P1", "P2">>}

AnswerExplanations == {"", "because"}

RemoteAnswers ==
    {Answer(k, {}, "", <<>>, "") :
        k \in {"raise", "no_chat_message", "none_content", "text_content"}}
    \cup
    {Answer("fields_content", D,
            IF "status" \in D THEN s ELSE "",
            IF "relevant_policies" \in D THEN p ELSE <<>>,
            IF "explanation" \in D THEN e ELSE "") :
        D \in SUBSET ResponseFields, s \in AnswerStatuses,
        p \in AnswerPolicies, e \in AnswerExplanations}

\* The task awaiting on_messages was cancelled before an answer came.
Cancelled == Answer("cancelled", {}, "", <<>>, "")

\* How the await of on_messages can end in a request: an answer, or the
\* cancellation of the request's task.
InFlightOutcomes == RemoteAnswers \cup {Cancelled}

\* Whether some policy of the corpus bears on the control under assessment:
\* a fact of the inputs that no line of the assessor computes.
Relevance == {"relevant", "irrelevant"}

\* The policy file: unreadable (missing, not UTF-16), empty, or with text.
PolicyFiles ==
    {[readable |-> FALSE, text |-> ""], [readable |-> TRUE, text |-> ""],
     [readable |-> TRUE, text |-> "Configuration AADTenant { ... }"]}

ConstructEnvs == [api_key : BOOLEAN, file : PolicyFiles]

InitializeEnvs == [client_ok : BOOLEAN, agent_ok : BOOLEAN, closeRaises : BOOLEAN]

Deployments == {"gpt-5-mini", ""}

\* Bounds of the merge inputs.
MaxDataRows == 2

MaxEntries == 2

SeqsUpTo(S, n) == UNION {[1..k -> S] : k \in 0..n}

IdA == <<"A">>

IdB == <<"B">>

\* Identifier cells of data rows: plain, padded with blanks, a number, empty.
IdCells ==
    {CharsCell(IdA), CharsCell(<<" ", "A", " ">>), CharsCell(IdB), IntCell(12),
     NoneCell}

\* Identifiers of result objects; the padded one matches no stripped cell.
EntryIds == {IdA, IdB, <<"1", "2">>, <<"N", "o", "n", "e">>, <<" ", "A", " ">>}

OldStatus == TextCell("old status")

OldComment == TextCell("old comment")

\* A row max_column cells wide with the given cells in columns B, L and M.
MkRow(width, b, l, m) ==
    [c \in 1..width |->
        IF c = ID_COL + 1 THEN b
        ELSE IF c = STATUS_COL + 1 THEN l
        ELSE IF c = COMMENT_COL + 1 THEN m
        ELSE IF c = 1 THEN TextCell("E8") ELSE NoneCell]

\* Sheets as wide as the template (columns A..M), one column short, and
\* without a column B.
SheetWidths == {COMMENT_COL + 1, COMMENT_COL, ID_COL}

\* The header's identifier cell: a caption, or text that is also a control id.
HeaderIdCells == {TextCell("Identifier"), CharsCell(IdA)}

Workbooks ==
    {NoFile, Workbook(FALSE, <<>>)}
    \cup
    {Workbook(TRUE,
              <<MkRow(w, h, TextCell("Status"), TextCell("Comment"))>>
              \o [r \in 1..Len(ids) |-> MkRow(w, ids[r], OldStatus, OldComment)]) :
        w \in SheetWidths, h \in HeaderIdCells, ids \in SeqsUpTo(IdCells, MaxDataRows)}

\* Result objects: complete ones, and ones lacking a key.
Entries ==
    {Entry(EntryKeys, k, st, IF st = "Effective" THEN "P1, P2" ELSE "") :
        k \in EntryIds, st \in {"Effective", "not implemented"}}
    \cup
    {Entry(EntryKeys \ {"ism-control"}, <<>>, "Effective", "P1"),
     Entry(EntryKeys \ {"comment"}, IdA, "Effective", "")}

\* A report left at the output location by an earlier call; no template of
\* Workbooks has its header, so no call can write a file equal to it.
OldReport ==
    Workbook(TRUE, <<MkRow(COMMENT_COL + 1, TextCell("Identifier"),
                           TextCell("Status"), TextCell("earlier report"))>>)

\* What the output location holds before a call: nothing, or an earlier report.
PriorOutputs == {NoFile, OldReport}

JsonFiles == {NoFile} \cup {JsonFile(es) : es \in SeqsUpTo(Entries, MaxEntries)}

\* Bounds of a request and of the control catalog.
MaxItems == 2

MaxCatalog == 2

ItemIds == {IdA, IdB}

ItemLists == SeqsUpTo(ItemIds, MaxItems)

\* data.json: unreadable, or a list of elements; B has no "Description".
CatalogEntries ==
    {CatalogEntry(FALSE, IdA, TRUE, "Restrict privileged access"),
     CatalogEntry(FALSE, IdB, FALSE, ""),
     CatalogEntry(TRUE, <<>>, FALSE, "")}

Catalogs ==
    {[readable |-> FALSE, data |-> <<>>]}
    \cup {[readable |-> TRUE, data |-> d] : d \in SeqsUpTo(CatalogEntries, MaxCatalog)}

\* ./data/results.json when a request arrives: absent, empty, or left there
\* by an earlier assessment of control A.
BatchJsonFiles ==
    {NoFile, JsonFile(<<>>),
     JsonFile(<<Entry(EntryKeys, IdA, "Effective", "P1, P2")>>)}

\* The template when a request arrives: rows for A and B, or no worksheet.
BatchWorkbooks ==
    {Workbook(FALSE, <<>>),
     Workbook(TRUE,
              <<MkRow(COMMENT_COL + 1, TextCell("Identifier"),
                      TextCell("Status"), TextCell("Comment")),
                MkRow(COMMENT_COL + 1, CharsCell(IdA), OldStatus, OldComment),
                MkRow(COMMENT_COL + 1, CharsCell(IdB), OldStatus, OldComment)>>)}

(***************************************************************************)
(* Values of the variables a specification does not use                    *)
(***************************************************************************)
NoMethodCall ==
    [op |-> "none", pre |-> NoAssessor, initOk |-> FALSE, resp |-> NoAnswer,
     out |-> NoCall, remote |-> 0, closes |-> 0]

AssessorIdle ==
    /\ assessor = NoAssessor
    /\ initOk = FALSE
    /\ call = NoMethodCall

BatchIdle ==
    /\ pc = "off"
    /\ items = <<>>
    /\ idx = 0
    /\ results = <<>>
    /\ desc = NoCall
    /\ session = NoAssessor
    /\ ret = NoCall
    /\ returned = <<>>
    /\ response = NoResponseYet
    /\ effects = NoEffects

FilesIdle ==
    /\ json_file = NoFile
    /\ excel_file = NoFile
    /\ output_file = NoFile
    /\ merged = NoCall

\* Bounds of the runs that share ./output: how many requests, and how far
\* the clock runs.
MaxRequests == 2

MaxClock == 120

Requests == 1..MaxRequests

\* The clock when the first request can arrive, and how far it moves between
\* two steps of the server.
StartTimes == {0, 3570}

TickSteps == {15, 45}

ReportsIdle ==
    /\ clock = 0
    /\ requests = <<>>
    /\ output_dir = <<>>

(***************************************************************************)
(* SpecAssessor: one ISMControlAssessor object, its public methods called  *)
(* in any order, with every answer the environment can give                *)
(***************************************************************************)
MethodCall(op, resp, out, remote, closes) ==
    [op |-> op, pre |-> assessor, initOk |-> initOk, resp |-> resp,
     out |-> out, remote |-> remote, closes |-> closes]

\* assessor = ISMControlAssessor(policy_file, azure_deployment=...)
Construct ==
    \E d \in Deployments, env \in ConstructEnvs :
        LET r == ISMControlAssessor(d, env)
        IN  /\ assessor' = IF r.kind = "return" THEN r.value ELSE NoAssessor
            /\ initOk' = FALSE
            /\ call' = MethodCall("__init__", NoAnswer,
                                  IF r.kind = "return" THEN Return(<<>>) ELSE r,
                                  0, 0)
            /\ UNCHANGED <<batchVars, fileVars, reportVars>>

\* await assessor.initialize()
Initialize ==
    /\ assessor.constructed
    /\ \E env \in InitializeEnvs :
        LET r == initialize(assessor, env)
        IN  /\ assessor' = r.self
            /\ initOk' = (initOk \/ r.out.kind = "return")
            /\ call' = MethodCall("initialize", NoAnswer, r.out, 0, r.closes)
    /\ UNCHANGED <<batchVars, fileVars, reportVars>>

\* await assessor.assess_control(ism_title, ism_description)
AssessControl ==
    /\ assessor.constructed
    /\ \E resp \in RemoteAnswers :
        LET r == assess_control(assessor, resp)
        IN  call' = MethodCall("assess_control",
                               IF r.remote = 1 THEN resp ELSE NoAnswer,
                               r.out, r.remote, 0)
    /\ UNCHANGED <<assessor, initOk, batchVars, fileVars, reportVars>>

\* await assessor.cleanup()
Cleanup ==
    /\ assessor.constructed
    /\ \E closeRaises \in BOOLEAN :
        LET r == cleanup(assessor, closeRaises)
        IN  /\ assessor' = r.self
            /\ call' = MethodCall("cleanup", NoAnswer, Return(<<>>), 0, r.closes)
    /\ UNCHANGED <<initOk, batchVars, fileVars, reportVars>>

InitAssessor == AssessorIdle /\ BatchIdle /\ FilesIdle /\ ReportsIdle

NextAssessor == Construct \/ Initialize \/ AssessControl \/ Cleanup

SpecAssessor == InitAssessor /\ [][NextAssessor]_vars

\* The last call was assess_control on an object whose initialize() had completed.
AssessedInitialized == call.op = "assess_control" /\ call.initOk

\* The remote call failed, or its answer was malformed or lacked a field.
FailedAnswer(resp) ==
    \/ resp.kind \in {"raise", "none_content", "text_content"}
    \/ resp.kind = "fields_content" /\ ~(ResponseFields \subseteq resp.present)

Fallback == <<"Not Assessed", <<>>, "">>

C4_StatusInTaxonomy ==
    (call.op = "assess_control" /\ call.out.kind = "return") =>
        call.out.value[1] \in implementation_statuses

NotInitializedError ==
    Exc("RuntimeError", "Assessor not initialized. Call initialize() first")

C10_EmptyCorpusNoFullStop ==
    (AssessedInitialized /\ call.pre.policies = "") =>
        /\ call.out = Return(<<"Not Assessed", <<>>,
                               "No policies available for assessment">>)
        /\ call.remote = 0

\* C10 amended: the explanation is "No policies available for assessment."
\* (with the full stop); status, evidence and the absence of a remote call
\* are as stated.
C10_EmptyCorpusShortCircuit ==
    (AssessedInitialized /\ call.pre.policies = "") =>
        /\ call.out = Return(<<"Not Assessed", <<>>,
                               "No policies available for assessment.">>)
        /\ call.remote = 0

C10_Witness ==
    /\ AssessedInitialized
    /\ call.pre.policies = ""
    /\ call.pre.model_client = "open"
    /\ call.out.kind = "return"

(***************************************************************************)
(* SpecMerge: update_ssp_excel called once on any results file and any     *)
(* template                                                                *)
(***************************************************************************)
\* update_ssp_excel(json_path, excel_path, output_path)
UpdateSspExcel ==
    /\ merged = NoCall
    /\ LET r == update_ssp_excel(json_file, excel_file, output_file)
       IN  /\ merged' = r.out
           /\ output_file' = r.output
           /\ excel_file' = r.template
    /\ UNCHANGED <<json_file, assessorVars, batchVars, reportVars>>

InitMerge ==
    /\ AssessorIdle
    /\ BatchIdle
    /\ json_file \in JsonFiles
    /\ excel_file \in Workbooks
    /\ output_file \in PriorOutputs
    /\ merged = NoCall
    /\ ReportsIdle

NextMerge == UpdateSspExcel

SpecMerge == InitMerge /\ [][NextMerge]_vars

\* Data row r of the template carries, as text and stripped, the identifier k.
RowHasId(r, k) ==
    /\ r >= MIN_ROW
    /\ r <= Len(excel_file.rows)
    /\ Strip(Str(excel_file.rows[r][ID_COL + 1])) = k

\* Entry i is the last result object of its identifier.
LastOfItsId(i) ==
    \A j \in (i + 1)..Len(json_file.entries) :
        json_file.entries[j].ism_control # json_file.entries[i].ism_control

\* C7 as stated: after update_ssp_excel, every data row whose identifier
\* equals that of some result holds that result's status in column L and its
\* comment in column M.
C7_MatchedRowsHoldAnyResult ==
    merged.kind = "return" =>
        \A r \in 1..Len(excel_file.rows), i \in 1..Len(json_file.entries) :
            RowHasId(r, json_file.entries[i].ism_control) =>
                /\ output_file.rows[r][STATUS_COL + 1]
                      = TextCell(json_file.entries[i].result)
                /\ output_file.rows[r][COMMENT_COL + 1]
                      = TextCell(json_file.entries[i].comment)

\* C7 amended: after update_ssp_excel, every data row whose identifier equals
\* that of some result holds, in columns L and M, the status and comment of
\* the last result in the list that carries this identifier.
C7_MatchedRowsHoldLastResult ==
    merged.kind = "return" =>
        \A r \in 1..Len(excel_file.rows), i \in 1..Len(json_file.entries) :
            (RowHasId(r, json_file.entries[i].ism_control) /\ LastOfItsId(i)) =>
                /\ output_file.rows[r][STATUS_COL + 1]
                      = TextCell(json_file.entries[i].result)
                /\ output_file.rows[r][COMMENT_COL + 1]
                      = TextCell(json_file.entries[i].comment)

C7_Witness ==
    /\ merged.kind = "return"
    /\ Len(json_file.entries) = 2
    /\ json_file.entries[1].ism_control = IdA
    /\ json_file.entries[2].ism_control = IdA
    /\ json_file.entries[1].result # json_file.entries[2].result
    /\ Len(excel_file.rows) = 3
    /\ excel_file.rows[2][ID_COL + 1] = CharsCell(<<" ", "A", " ">>)
    /\ output_file.rows[2][STATUS_COL + 1] = TextCell(json_file.entries[2].result)

\* C8: after update_ssp_excel the output has the template's rows and cells,
\* and a cell differs from the template's only in column L or M of a data
\* row whose identifier equals that of a result; the header row and rows
\* without a matching result are as in the template.
C8_NothingElseChanges ==
    merged.kind = "return" =>
        /\ output_file.has_sheet = excel_file.has_sheet
        /\ Len(output_file.rows) = Len(excel_file.rows)
        /\ \A r \in 1..Len(excel_file.rows) :
              /\ Len(output_file.rows[r]) = Len(excel_file.rows[r])
              /\ \A c \in 1..Len(excel_file.rows[r]) :
                    output_file.rows[r][c] # excel_file.rows[r][c] =>
                        /\ c \in {STATUS_COL + 1, COMMENT_COL + 1}
                        /\ \E i \in 1..Len(json_file.entries) :
                              RowHasId(r, json_file.entries[i].ism_control)

C8_Witness ==
    /\ merged.kind = "return"
    /\ Len(excel_file.rows) = 3
    /\ excel_file.rows[1][ID_COL + 1] = CharsCell(IdA)
    /\ excel_file.rows[2][ID_COL + 1] = CharsCell(IdA)
    /\ excel_file.rows[3][ID_COL + 1] = CharsCell(IdB)
    /\ \E i \in 1..Len(json_file.entries) : json_file.entries[i].ism_control = IdA
    /\ output_file.rows[1] = excel_file.rows[1]
    /\ output_file.rows[2] # excel_file.rows[2]
    /\ output_file.rows[3] = excel_file.rows[3]

(***************************************************************************)
(* Spec: one request to POST /conduct-assessment.  process_strings runs    *)
(* the loop body once per control; assess_ism_control is followed through  *)
(* its awaits (initialize, assess_control, cleanup).                       *)
(***************************************************************************)
\* The request arrives: results = [] and the loop starts.
Submit ==
    /\ pc = "idle"
    /\ \E list \in ItemLists :
        /\ items' = list
        /\ pc' = IF list = <<>> THEN "merge" ELSE "lookup"
    /\ idx' = 1
    /\ results' = <<>>
    /\ UNCHANGED <<desc, session, ret, returned, response, effects,
                   assessorVars, fileVars, reportVars>>

\* desc = get_ism_description(ism), outside the try statement
LookupDescription ==
    /\ pc = "lookup"
    /\ \E file \in Catalogs :
        LET r == get_ism_description(items[idx], file)
        IN  IF r.kind = "raise"
            THEN /\ pc' = "failed"
                 /\ response' = Failed("lookup", r.exc)
                 /\ UNCHANGED desc
            ELSE /\ pc' = "construct"
                 /\ desc' = r
                 /\ UNCHANGED response
    /\ UNCHANGED <<items, idx, results, session, ret, returned, effects,
                   assessorVars, fileVars, reportVars>>

\* assess_ism_control: assessor = ISMControlAssessor(policy_file, ...); the
\* constructor reads the policy file unless the API key is missing
CreateAssessor ==
    /\ pc = "construct"
    /\ \E env \in ConstructEnvs :
        LET r == ISMControlAssessor(Model, env)
            read == IF env.api_key THEN 1 ELSE 0
        IN  IF r.kind = "raise"
            THEN /\ ret' = AssessExcept(r)
                 /\ pc' = "record"
                 /\ effects' = [effects EXCEPT !.loads = @ + read,
                                               !.failure =
                                    IF env.api_key THEN "load" ELSE "api_key"]
                 /\ UNCHANGED session
            ELSE /\ session' = r.value
                 /\ pc' = "initialize"
                 /\ effects' = [effects EXCEPT !.loads = @ + read]
                 /\ UNCHANGED ret
    /\ UNCHANGED <<items, idx, results, desc, returned, response,
                   assessorVars, fileVars, reportVars>>

\* assess_ism_control: await assessor.initialize()
AwaitInitialize ==
    /\ pc = "initialize"
    /\ \E env \in InitializeEnvs :
        LET r == initialize(session, env)
            created == IF r.self.model_client # "None" THEN 1 ELSE 0
        IN  /\ session' = r.self
            /\ effects' = [effects EXCEPT
                   !.clients = @ + created,
                   !.closes = @ + r.closes,
                   !.closeRaised = @ \/ (r.closes > 0 /\ env.closeRaises),
                   !.live = @ + created - r.closes,
                   !.failure = IF r.out.kind = "raise" THEN "initialize" ELSE @]
            /\ IF r.out.kind = "raise"
               THEN ret' = AssessExcept(r.out) /\ pc' = "record"
               ELSE pc' = "assess" /\ UNCHANGED ret
    /\ UNCHANGED <<items, idx, results, desc, returned, response,
                   assessorVars, fileVars, reportVars>>

\* assess_ism_control: await assessor.assess_control(ism_title,
\* ism_description); the task may be cancelled while on_messages is awaited
AwaitAssessControl ==
    /\ pc = "assess"
    /\ \E resp \in InFlightOutcomes, rel \in Relevance :
        LET r == assess_control(session, resp)
        IN  /\ ret' = r.out
            /\ effects' = [effects EXCEPT !.remote = @ + r.remote,
                                          !.relevance = rel]
    /\ pc' = "cleanup"
    /\ UNCHANGED <<items, idx, results, desc, session, returned, response,
                   assessorVars, fileVars, reportVars>>

\* assess_ism_control: finally: await assessor.cleanup(); then an Exception
\* of assess_control reaches the except clause, and a cancellation leaves
\* assess_ism_control and process_strings, whose except clauses name Exception
AwaitCleanup ==
    /\ pc = "cleanup"
    /\ \E closeRaises \in BOOLEAN :
        LET c == AssessFinally(session, closeRaises, ret)
        IN  /\ session' = c.self
            /\ effects' = [effects EXCEPT
                   !.closes = @ + c.closes,
                   !.closeRaised = @ \/ (c.closes > 0 /\ closeRaises),
                   !.live = @ - c.closes]
    /\ ret' = AssessExcept(ret)
    /\ IF AssessExcept(ret).kind = "raise"
       THEN pc' = "failed" /\ response' = Failed("cancelled", ret.exc)
       ELSE pc' = "record" /\ UNCHANGED response
    /\ UNCHANGED <<items, idx, results, desc, returned,
                   assessorVars, fileVars, reportVars>>

\* status, policies = <what assess_ism_control returned>; build result;
\* results.append(result); next control
RecordResult ==
    /\ pc = "record"
    /\ results' = AppendResult(results, items[idx], ret)
    /\ returned' = Append(returned, ret)
    /\ idx' = idx + 1
    /\ pc' = IF idx = Len(items) THEN "merge" ELSE "lookup"
    /\ session' = NoAssessor
    /\ ret' = NoCall
    /\ desc' = NoCall
    /\ effects' = NextControl(effects)
    /\ UNCHANGED <<items, response, assessorVars, fileVars, reportVars>>

\* update_ssp_excel(json_path, excel_path, output_path); return
MergeAndRespond ==
    /\ pc = "merge"
    /\ LET r == update_ssp_excel(json_file, excel_file, output_file)
       IN  /\ merged' = r.out
           /\ output_file' = r.output
           /\ excel_file' = r.template
           /\ IF r.out.kind = "raise"
              THEN pc' = "failed" /\ response' = Failed("merge", r.out.exc)
              ELSE pc' = "done" /\ response' = Responded(results)
    /\ UNCHANGED <<items, idx, results, desc, session, ret, returned, effects,
                   json_file, assessorVars, reportVars>>

Init ==
    /\ AssessorIdle
    /\ pc = "idle"
    /\ items = <<>>
    /\ idx = 0
    /\ results = <<>>
    /\ desc = NoCall
    /\ session = NoAssessor
    /\ ret = NoCall
    /\ returned = <<>>
    /\ response = NoResponseYet
    /\ effects = NoEffects
    /\ json_file \in BatchJsonFiles
    /\ excel_file \in BatchWorkbooks
    /\ output_file = NoFile
    /\ merged = NoCall
    /\ ReportsIdle

Next ==
    \/ Submit
    \/ LookupDescription
    \/ CreateAssessor
    \/ AwaitInitialize
    \/ AwaitAssessControl
    \/ AwaitCleanup
    \/ RecordResult
    \/ MergeAndRespond

Spec == Init /\ [][Next]_vars

\* What the loop of process_strings keeps true: results holds one entry per
\* control processed so far, the i-th entry carrying the i-th identifier, and
\* a loop that ran to its end leaves one entry per input identifier.
LoopAppendsOncePerControl ==
    /\ Len(results) <= Len(items)
    /\ \A i \in 1..Len(results) : results[i].ism_control = items[i]
    /\ pc \in {"lookup", "construct", "initialize", "assess", "cleanup", "record"}
          => Len(results) = idx - 1
    /\ pc \in {"merge", "done"} => Len(results) = Len(items)
    /\ pc = "done" => response.assessments = results

\* C1: for every submitted list, when the run is over the accumulated
\* results list has exactly one entry per input identifier, the i-th entry
\* carrying the i-th identifier.
C1_OneEntryPerInput ==
    pc \in {"done", "failed"} =>
        /\ Len(results) = Len(items)
        /\ \A i \in 1..Len(results) : results[i].ism_control = items[i]

\* C2: no exception raised while one control is processed leaves
\* process_strings; in particular a failing description lookup does not.
C2_ControlFailureNeverAborts ==
    response.kind = "raise" => response.at # "lookup"

\* C5: in the written report, the row of every input control holds the
\* result and comment of that control in the returned assessments.
C5_ReportHoldsRunResults ==
    pc = "done" =>
        \A i \in 1..Len(items), r \in 1..Len(excel_file.rows) :
            RowHasId(r, items[i]) =>
                /\ output_file.rows[r][STATUS_COL + 1]
                      = TextCell(response.assessments[i].result)
                /\ output_file.rows[r][COMMENT_COL + 1]
                      = TextCell(response.assessments[i].comment)

\* C6: whenever assess_ism_control returned (status, evidence, explanation),
\* the control's entry has result = status and comment = ", ".join(evidence).
C6_EntryReflectsAssessor ==
    \A i \in 1..Len(results) :
        returned[i].kind = "return" =>
            /\ results[i].result = returned[i].value[1]
            /\ results[i].comment = Join(returned[i].value[2])

\* assess_ism_control is over for the current control: it returned (the
\* loop is about to record its value) or a cancellation left it.
AssessIsmControlLeft ==
    \/ pc = "record"
    \/ pc = "failed" /\ response.at = "cancelled"

\* C11: whenever assess_ism_control is left and a remote model client was
\* created during the call, the client's close has been attempted; and an
\* exception raised by close never reaches the caller: the only exception
\* that leaves assess_ism_control is the cancellation of the remote call, and
\* a call whose close raised and that was not cancelled returns a value.
C11_TeardownAttemptedBestEffort ==
    /\ AssessIsmControlLeft /\ effects.clients > 0 => effects.closes > 0
    /\ AssessIsmControlLeft /\ ret.kind = "raise" => ret.exc = Exc("CancelledError", "")
    /\ pc = "record" => ret.kind = "return"

\* C11 happens: initialize failed after the client was constructed, the
\* close attempted on that path raised, and assess_ism_control returned.
C11_Witness ==
    /\ pc = "record"
    /\ effects.failure = "initialize"
    /\ effects.clients = 1
    /\ effects.closes = 1
    /\ effects.closeRaised
    /\ ret = AssessFallback

\* The remote call of the current control was cancelled in flight and the
\* CancelledError is on its way out of assess_control.
CancelledInFlight ==
    /\ pc = "cleanup"
    /\ effects.remote = 1
    /\ ret = Raise("CancelledError", "")

\* C12: a run of assess_ism_control cancelled while the remote call is in
\* flight is not stuck: its teardown step is the next thing to run; and once
\* control has left assess_ism_control with the cancellation, the close of
\* the session it created has been attempted and no session of the run is
\* left without teardown.  The terminal state is the propagated cancellation.
C12_CancelledRunTornDown ==
    /\ CancelledInFlight => ENABLED AwaitCleanup
    /\ pc = "failed" /\ response.at = "cancelled" =>
        /\ response.exc = Exc("CancelledError", "")
        /\ effects.clients = 1
        /\ effects.closes = 1
        /\ effects.live = 0

\* C12 happens: a remote call was made and cancelled, teardown ran, and the
\* cancellation left process_strings.
C12_Witness ==
    /\ pc = "failed"
    /\ response = Failed("cancelled", Exc("CancelledError", ""))
    /\ effects.remote = 1
    /\ effects.closes = 1

\* C13: when the policy corpus could not be loaded or initialize() failed,
\* what assess_ism_control hands its caller is an exception, not a value.
C13_StructuralFailureSurfaced ==
    pc = "record" /\ effects.failure \in {"load", "initialize"} =>
        ret.kind = "raise"

\* C15: within one run the policy file is read at most once, however many
\* controls the run assesses.
C15_CorpusLoadedOncePerRun ==
    effects.loads <= 1

\* The results file loads: it is readable and every result object carries
\* the key 'ism-control'.
ResultsLoad ==
    /\ json_file.readable
    /\ \A i \in 1..Len(json_file.entries) :
          "ism-control" \in json_file.entries[i].keys

\* update_ssp_excel was called on a template that lacks the worksheet.
CalledWithoutSheet ==
    /\ merged # NoCall
    /\ excel_file.readable
    /\ ~excel_file.has_sheet

\* The output location holds what it held before the call: nothing, or the
\* earlier report (which no call can produce).
NothingWritten == output_file \in PriorOutputs

TemplateStructureError ==
    Exc("ValueError", "Worksheet 'Essential Eight' not found in the Excel file")

\* C14 as stated: whenever the worksheet is absent from the template,
\* update_ssp_excel fails with the template-structure error and writes no
\* output file.
C14_MissingSheetAlwaysStructureError ==
    CalledWithoutSheet =>
        /\ merged.kind = "raise"
        /\ merged.exc = TemplateStructureError
        /\ NothingWritten

\* C14 amended: whenever the worksheet is absent from the template,
\* update_ssp_excel fails and writes no output file; the failure is the
\* template-structure error exactly when the results file loads, and the
\* results file's own error otherwise.
C14_MissingSheetFails ==
    CalledWithoutSheet =>
        /\ merged.kind = "raise"
        /\ NothingWritten
        /\ ResultsLoad <=> merged.exc = TemplateStructureError

\* C14 happens: results were loaded, the worksheet is missing, the call
\* failed with the template-structure error and wrote nothing.
C14_Witness ==
    /\ CalledWithoutSheet
    /\ ResultsLoad
    /\ json_file.entries # <<>>
    /\ merged.exc = TemplateStructureError
    /\ NothingWritten

\* C18: no call of update_ssp_excel, successful or failed, changes the file
\* at the template location.
C18_TemplateNeverModified ==
    [][excel_file' = excel_file]_vars

\* C18 happens: a call succeeded on a template with rows to update and wrote
\* an output that differs from the template.
C18_Witness ==
    /\ merged.kind = "return"
    /\ excel_file.readable
    /\ output_file.readable
    /\ output_file # excel_file

\* C16: whenever assess_control has sent its prompt to the remote service,
\* the labels that prompt offers are exactly the statuses the assessor
\* accepts: the prompt's list, implementation_statuses and the labels
\* is_valid_status accepts are one and the same set.
C16_SingleCanonicalLabelSet ==
    (call.op = "assess_control" /\ call.remote = 1) =>
        /\ PromptStatuses = implementation_statuses
        /\ \A s \in PromptStatuses \cup implementation_statuses
                                    \cup AnswerStatuses :
              is_valid_status(s) <=> s \in implementation_statuses

\* C17: assess_control on an initialized assessor with a non-empty corpus
\* calls on_messages exactly once, whatever comes back, and its result is
\* determined by that one final answer: the answer's three fields when it
\* validates, a "Not Assessed" result with no evidence otherwise.
C17_RemoteInvokedOnce ==
    (AssessedInitialized /\ call.pre.policies # "") =>
        /\ call.remote = 1
        /\ ValidPayload(call.resp) =>
              call.out = Return(<<call.resp.status, call.resp.relevant_policies,
                                  call.resp.explanation>>)
        /\ ~ValidPayload(call.resp) =>
              /\ call.out.kind = "return"
              /\ call.out.value[1] = "Not Assessed"
              /\ call.out.value[2] = <<>>

\* C17 happens: the remote call raised, no second call was made and the
\* fallback was returned.
C17_Witness ==
    /\ AssessedInitialized
    /\ call.pre.policies # ""
    /\ call.resp.kind = "raise"
    /\ call.remote = 1
    /\ call.out.value = Fallback

\* C19: whenever assess_ism_control returns for a control that no policy of
\* the corpus bears on, the status is "Not Assessed" and the list of
\* relevant policies is empty.
C19_IrrelevantControlNotAssessed ==
    pc = "record" /\ effects.relevance = "irrelevant" =>
        /\ ret.kind = "return"
        /\ ret.value[1] = "Not Assessed"
        /\ ret.value[2] = <<>>

\* C20: at most one session of the run is live (created, teardown not yet
\* attempted) at any time, and none is when the next control is started,
\* when its assessor is built, or when the loop is over: everything done for
\* control i is finished before anything is started for control i+1.
C20_OneControlAtATime ==
    /\ effects.live <= 1
    /\ pc \in {"lookup", "construct", "initialize", "merge", "done"} =>
          effects.live = 0
    /\ pc \in {"lookup", "construct"} =>
          /\ session = NoAssessor
          /\ ret = NoCall
          /\ effects.clients = 0 /\ effects.remote = 0 /\ effects.closes = 0

\* C20 happens: the first control went through session, remote call and
\* teardown and was recorded; the second control's session is now live and
\* it is the only one.
C20_Witness ==
    /\ idx = 2
    /\ pc = "assess"
    /\ Len(returned) = 1
    /\ returned[1].kind = "return"
    /\ returned[1].value[1] = "Effective"
    /\ session.model_client = "open"
    /\ effects.live = 1

\* C21: a call of update_ssp_excel that raises leaves the output location
\* as it was: no file appears there and a file that was there is not
\* replaced, even when rows had already been updated in memory.
C21_FailedMergeWritesNothing ==
    [][merged'.kind = "raise" => output_file' = output_file]_vars

\* C21 happens: the sheet's rows end at column L, so the matched row got
\* its status in memory before the comment assignment raised; the call
\* failed and the earlier report is still at the output location.
C21_Witness ==
    /\ merged.kind = "raise"
    /\ merged.exc = Exc("IndexError", "tuple index out of range")
    /\ excel_file.has_sheet
    /\ Len(excel_file.rows) >= MIN_ROW
    /\ Len(excel_file.rows[MIN_ROW]) = COMMENT_COL
    /\ iter_rows(excel_file.rows, result_map(json_file.entries)).rows
          # excel_file.rows
    /\ output_file = OldReport

(***************************************************************************)
(* SpecReports: several requests to POST /conduct-assessment served by one *)
(* event loop.  A request can be overtaken by another while its loop       *)
(* awaits an assessment; from the end of the loop to the return statement  *)
(* process_strings awaits nothing, so naming the report, writing it and    *)
(* answering are one step.                                                 *)
(***************************************************************************)
\* Time passes, up to MaxClock seconds after the start.
Tick ==
    /\ \E d \in TickSteps :
        /\ \E t \in StartTimes : t <= clock /\ clock + d <= t + MaxClock
        /\ clock' = clock + d
    /\ UNCHANGED <<requests, output_dir, assessorVars, batchVars, fileVars>>

\* A request arrives and its loop over the controls starts.
Arrive(r) ==
    /\ requests[r].pc = "idle"
    /\ requests' = [requests EXCEPT ![r] = Request("loop", "")]
    /\ UNCHANGED <<clock, output_dir, assessorVars, batchVars, fileVars>>

\* An exception leaves the loop (a failing description lookup, a
\* cancellation): the request ends without a report.
LoopRaises(r) ==
    /\ requests[r].pc = "loop"
    /\ requests' = [requests EXCEPT ![r] = Request("failed", "")]
    /\ UNCHANGED <<clock, output_dir, assessorVars, batchVars, fileVars>>

\* The loop is over: filename = get_output_filename(); output_path =
\* get_output_path(filename); update_ssp_excel(json_path, excel_path,
\* output_path); return {"output_file": filename, ...}
WriteReport(r) ==
    /\ requests[r].pc = "loop"
    /\ LET filename == get_output_filename(Now(clock))
           output_path == get_output_path(filename)
           u == update_ssp_excel(json_file, excel_file,
                                 FileAt(output_dir, output_path))
       IN  IF u.out.kind = "raise"
           THEN /\ requests' = [requests EXCEPT ![r] = Request("failed", "")]
                /\ UNCHANGED output_dir
           ELSE /\ requests' = [requests EXCEPT ![r] = Request("done", filename)]
                /\ output_dir' = (output_path :> Report(u.output, r)) @@ output_dir
    /\ UNCHANGED <<clock, json_file, excel_file, output_file, merged,
                   assessorVars, batchVars>>

InitReports ==
    /\ AssessorIdle
    /\ BatchIdle
    /\ json_file \in BatchJsonFiles
    /\ excel_file \in BatchWorkbooks
    /\ output_file = NoFile
    /\ merged = NoCall
    /\ clock \in StartTimes
    /\ requests = [r \in Requests |-> Request("idle", "")]
    /\ output_dir = <<>>

NextReports ==
    \/ Tick
    \/ \E r \in Requests : Arrive(r)
    \/ \E r \in Requests : LoopRaises(r)
    \/ \E r \in Requests : WriteReport(r)

SpecReports == InitReports /\ [][NextReports]_vars

\* C22: any two requests that both completed returned different output_file
\* names, and the file under the name a completed request returned is the
\* one that request saved.
C22_CompletedRunsOwnTheirReports ==
    \A r1 \in DOMAIN requests :
        requests[r1].pc = "done" =>
            /\ output_dir[get_output_path(requests[r1].output_file)].request = r1
            /\ \A r2 \in DOMAIN requests \ {r1} :
                  requests[r2].pc = "done" =>
                      requests[r2].output_file # requests[r1].output_file

=============================================================================
